---------------------------- MODULE Spec2Model ----------------------------
(***************************************************************************)
(* Learning-management backend: Course -> Module -> Lesson hierarchy with  *)
(* slug assignment (core/mixins.py), cascading deletes and derived         *)
(* completion (core/models.py), the pre_save handler of LessonProgress     *)
(* (core/signals.py) and the request handlers of core/views.py.            *)
(*                                                                         *)
(* Text is modelled as a sequence of one-character strings, so that        *)
(* slugify, truncation and suffixing are computed character by character.  *)
(* Timestamps are readings of an integer clock; None is a null column.     *)
(***************************************************************************)
EXTENDS Integers, Sequences, FiniteSets, TLC

VARIABLES courses, modules, lessons, tags, topics,
          enrollments, progress, clock, response, procs

vars == <<courses, modules, lessons, tags, topics,
          enrollments, progress, clock, response, procs>>

-----------------------------------------------------------------------------
(* Bounds of the model *)

MaxRows == 3
MaxCourses == 2
MaxModules == 2
MaxLessons == 1
MaxNested == 2
MaxEnroll == 1
MaxProgress == 1
MaxTime == 2
MaxRace == 3
MaxProgressRows == 2
MaxTracked == 4
MaxMarks == 2

-----------------------------------------------------------------------------
(* Values *)

None == "None"          \* a null user reference
NoPk == 0               \* self.pk of an unsaved instance; a null foreign key
NoTime == 0             \* a null DateTimeField
Empty == << >>          \* the empty text

Users == {"u1", "u2"}
Procs == {"p1", "p2"}

\* sample display names: "A" and "a 2" slugify to "a" and "a-2", "!" to ""
Names == {<<"A">>, <<"a", " ", "2">>, <<"!">>}

-----------------------------------------------------------------------------
(* django.utils.text.slugify as called at core/mixins.py:36 *)

Lower(c) == IF c = "A" THEN "a" ELSE c

IsWord(c) == c \in {"a", "A", "_", "0", "1", "2", "3", "4", "5", "6", "7", "8", "9"}
IsSpace(c) == c = " "
IsDash(c) == c = "-"

\* re.sub(r"[^\w\s-]", "", value.lower())
RECURSIVE DropOther(_)
DropOther(s) ==
    IF s = Empty THEN Empty
    ELSE LET c == Lower(Head(s))
             rest == DropOther(Tail(s))
         IN  IF IsWord(c) \/ IsSpace(c) \/ IsDash(c) THEN <<c>> \o rest ELSE rest

\* re.sub(r"[-\s]+", "-", value)
RECURSIVE SquashDashes(_)
SquashDashes(s) ==
    IF s = Empty THEN Empty
    ELSE LET c == Head(s)
             rest == SquashDashes(Tail(s))
         IN  IF IsSpace(c) \/ IsDash(c)
             THEN IF rest # Empty /\ Head(rest) = "-" THEN rest ELSE <<"-">> \o rest
             ELSE <<c>> \o rest

\* .strip("-_")
RECURSIVE StripLeft(_)
StripLeft(s) ==
    IF s # Empty /\ Head(s) \in {"-", "_"} THEN StripLeft(Tail(s)) ELSE s

RECURSIVE StripRight(_)
StripRight(s) ==
    IF s # Empty /\ s[Len(s)] \in {"-", "_"}
    THEN StripRight(SubSeq(s, 1, Len(s) - 1))
    ELSE s

slugify(value) == StripRight(StripLeft(SquashDashes(DropOther(value))))

-----------------------------------------------------------------------------
(* SlugMixin.save (core/mixins.py:28-47) *)

SlugBaseLen == 200

Truncate(s, n) == IF Len(s) <= n THEN s ELSE SubSeq(s, 1, n)

DigitChar(d) == CASE d = 0 -> "0" [] d = 1 -> "1" [] d = 2 -> "2" [] d = 3 -> "3"
                  [] d = 4 -> "4" [] d = 5 -> "5" [] d = 6 -> "6" [] d = 7 -> "7"
                  [] d = 8 -> "8" [] d = 9 -> "9"

\* str(i) inside the f-string of line 41
RECURSIVE Str(_)
Str(i) == IF i < 10 THEN <<DigitChar(i)>> ELSE Str(i \div 10) \o <<DigitChar(i % 10)>>

\* f"{base}-{i}"
Suffixed(base, i) == base \o <<"-">> \o Str(i)

\* Model.objects.filter(slug=candidate).exclude(pk=self.pk).exists()
SlugTaken(table, candidate, pk) ==
    \E r \in table : r.slug = candidate /\ r.id # pk

\* the while loop of lines 40-42
RECURSIVE FindCandidate(_, _, _, _, _)
FindCandidate(table, pk, base, candidate, i) ==
    IF SlugTaken(table, candidate, pk)
    THEN FindCandidate(table, pk, base, Suffixed(base, i), i + 1)
    ELSE candidate

\* a save that derives the slug from the name again whether or not one is set
AssignSlugEverySave(table, pk, name, slug) ==
    IF name # Empty
    THEN LET base == Truncate(slugify(name), SlugBaseLen)
         IN  FindCandidate(table, pk, base, base, 2)
    ELSE slug

\* lines 33-43: the slug the instance carries into super().save()
AssignSlug(table, pk, name, slug) ==
    IF slug = Empty
    THEN IF name # Empty
         THEN LET base == Truncate(slugify(name), SlugBaseLen)
              IN  FindCandidate(table, pk, base, base, 2)
         ELSE slug
    ELSE slug

-----------------------------------------------------------------------------
(* The relational store: constraints declared by the models *)

\* the implicit AutoField primary key: the lowest id no row of the table holds
NewId(table) ==
    CHOOSE i \in 1..(Cardinality(table) + 1) :
        /\ \A r \in table : r.id # i
        /\ \A j \in 1..(i - 1) : \E r \in table : r.id = j

\* SlugField(unique=True): core/mixins.py:29
SlugUnique(table, row) ==
    \A r \in table : r.id # row.id => r.slug # row.slug

\* unique_together (("course", "slug"),) and (("module", "slug"),)
ParentSlugUnique(table, row) ==
    \A r \in table : r.id # row.id => ~(r.parent = row.parent /\ r.slug = row.slug)

\* ForeignKey(...) without null=True: the parent row must exist
ParentExists(parents, row) ==
    \E p \in parents : p.id = row.parent

\* a store that does not check (course, user)
EnrollmentUnchecked(table, row) == TRUE

\* unique_together (("course", "user"),)
EnrollmentUnique(table, row) ==
    \A r \in table : r.id # row.id => ~(r.course = row.course /\ r.user = row.user)

\* unique_together (("user", "lesson"),)
ProgressUnique(table, row) ==
    \A r \in table : r.id # row.id => ~(r.user = row.user /\ r.lesson = row.lesson)

\* LessonProgress.user is a ForeignKey without null=True
UserNotNull(row) == row.user # None

Row(id, name, slug, parent) ==
    [id |-> id, name |-> name, slug |-> slug, parent |-> parent]

\* what the last request or ORM call answered
Resp(op, status, kind, parent, user, value) ==
    [op |-> op, status |-> status, kind |-> kind,
     parent |-> parent, user |-> user, value |-> value]

NoResp == Resp("none", "none", "none", NoPk, None, 0)

-----------------------------------------------------------------------------
(* Saving a slugged instance: SlugMixin.save followed by Model.save *)

\* a new flat instance (Course, Tag, Topic): slug assigned, then INSERT
InsertFlat(table, name, slugIn) ==
    LET row == Row(NewId(table), name, AssignSlug(table, NoPk, name, slugIn), NoPk)
    IN  IF SlugUnique(table, row)
        THEN [ok |-> TRUE, table |-> table \cup {row}, row |-> row]
        ELSE [ok |-> FALSE, table |-> table, row |-> row]

\* a new child instance (Module, Lesson); parent = NoPk when no parent was bound
InsertChild(table, parents, name, slugIn, parent) ==
    LET row == Row(NewId(table), name, AssignSlug(table, NoPk, name, slugIn), parent)
    IN  IF /\ ParentExists(parents, row)
           /\ SlugUnique(table, row)
           /\ ParentSlugUnique(table, row)
        THEN [ok |-> TRUE, table |-> table \cup {row}, row |-> row]
        ELSE [ok |-> FALSE, table |-> table, row |-> row]

\* an existing instance saved again with its name and slug set by the caller
UpdateRow(table, old, name, slugIn) ==
    LET row == Row(old.id, name, AssignSlug(table, old.id, name, slugIn), old.parent)
    IN  IF SlugUnique(table, row) /\ ParentSlugUnique(table, row)
        THEN [ok |-> TRUE, table |-> (table \ {old}) \cup {row}, row |-> row]
        ELSE [ok |-> FALSE, table |-> table, row |-> row]

Status(ok) == IF ok THEN "ok" ELSE "IntegrityError"

-----------------------------------------------------------------------------
(* Cascading deletes: every ForeignKey of core/models.py is on_delete=CASCADE *)

ModulesOf(cs) == {m \in modules : m.parent \in cs}
LessonsOf(ms) == {l \in lessons : l.parent \in ms}
EnrollmentsOf(cs) == {e \in enrollments : e.course \in cs}
ProgressOf(ls) == {p \in progress : p.lesson \in ls}

Ids(table) == {r.id : r \in table}

\* a delete that does not follow LessonProgress.lesson
CascadeKeepProgress(cs, ms, ls) ==
    LET delModules == ms \cup Ids(ModulesOf(cs))
        delLessons == ls \cup Ids(LessonsOf(delModules))
    IN  [courses |-> {c \in courses : c.id \notin cs},
         modules |-> {m \in modules : m.id \notin delModules},
         lessons |-> {l \in lessons : l.id \notin delLessons},
         enrollments |-> enrollments \ EnrollmentsOf(cs),
         progress |-> progress]

\* what deleting the given courses, modules and lessons leaves in the store
CascadeDelete(cs, ms, ls) ==
    LET delModules == ms \cup Ids(ModulesOf(cs))
        delLessons == ls \cup Ids(LessonsOf(delModules))
    IN  [courses |-> {c \in courses : c.id \notin cs},
         modules |-> {m \in modules : m.id \notin delModules},
         lessons |-> {l \in lessons : l.id \notin delLessons},
         enrollments |-> enrollments \ EnrollmentsOf(cs),
         progress |-> progress \ ProgressOf(delLessons)]

\* the number of rows a delete removed: the first item Model.delete() returns
Removed(d) ==
    (Cardinality(courses) - Cardinality(d.courses))
        + (Cardinality(modules) - Cardinality(d.modules))
        + (Cardinality(lessons) - Cardinality(d.lessons))
        + (Cardinality(enrollments) - Cardinality(d.enrollments))
        + (Cardinality(progress) - Cardinality(d.progress))

ApplyDelete(d, kind, pk) ==
    /\ courses' = d.courses
    /\ modules' = d.modules
    /\ lessons' = d.lessons
    /\ enrollments' = d.enrollments
    /\ progress' = d.progress
    /\ response' = Resp("delete", "ok", kind, pk, None, Removed(d))

-----------------------------------------------------------------------------
(* Model.save() and Model.delete() of the slugged models: a save runs      *)
(* SlugMixin.save, a delete follows the on_delete=CASCADE foreign keys.    *)
(* A save the store refuses (IntegrityError) leaves the table unchanged.   *)

CreateCourse(name, slugIn) ==
    LET r == InsertFlat(courses, name, slugIn)
    IN  /\ courses' = r.table
        /\ response' = NoResp
        /\ UNCHANGED <<modules, lessons, tags, topics, enrollments, progress, clock, procs>>

CreateTag(name, slugIn) ==
    LET r == InsertFlat(tags, name, slugIn)
    IN  /\ tags' = r.table
        /\ response' = NoResp
        /\ UNCHANGED <<courses, modules, lessons, topics, enrollments, progress, clock, procs>>

CreateTopic(name, slugIn) ==
    LET r == InsertFlat(topics, name, slugIn)
    IN  /\ topics' = r.table
        /\ response' = NoResp
        /\ UNCHANGED <<courses, modules, lessons, tags, enrollments, progress, clock, procs>>

\* the slug an update carries: the caller's when it sets one, else the stored one
CarriedSlug(old, setSlug, slugIn) == IF setSlug THEN slugIn ELSE old.slug

UpdateCourse(pk, name, setSlug, slugIn) ==
    /\ \E old \in courses : old.id = pk
    /\ LET old == CHOOSE c \in courses : c.id = pk
           r == UpdateRow(courses, old, name, CarriedSlug(old, setSlug, slugIn))
       IN  courses' = r.table
    /\ response' = NoResp
    /\ UNCHANGED <<modules, lessons, tags, topics, enrollments, progress, clock, procs>>

UpdateModule(pk, name, setSlug, slugIn) ==
    /\ \E old \in modules : old.id = pk
    /\ LET old == CHOOSE m \in modules : m.id = pk
           r == UpdateRow(modules, old, name, CarriedSlug(old, setSlug, slugIn))
       IN  modules' = r.table
    /\ response' = NoResp
    /\ UNCHANGED <<courses, lessons, tags, topics, enrollments, progress, clock, procs>>

DeleteCourse(pk) ==
    /\ \E c \in courses : c.id = pk
    /\ ApplyDelete(CascadeDelete({pk}, {}, {}), "course", pk)
    /\ UNCHANGED <<tags, topics, clock, procs>>

DeleteModule(pk) ==
    /\ \E m \in modules : m.id = pk
    /\ ApplyDelete(CascadeDelete({}, {pk}, {}), "module", pk)
    /\ UNCHANGED <<tags, topics, clock, procs>>

DeleteLesson(pk) ==
    /\ \E l \in lessons : l.id = pk
    /\ ApplyDelete(CascadeDelete({}, {}, {pk}), "lesson", pk)
    /\ UNCHANGED <<tags, topics, clock, procs>>

DeleteTopic(pk) ==
    /\ \E g \in topics : g.id = pk
    /\ topics' = {g \in topics : g.id # pk}
    /\ response' = NoResp
    /\ UNCHANGED <<courses, modules, lessons, tags, enrollments, progress, clock, procs>>

-----------------------------------------------------------------------------
(* ModuleViewSet.perform_create and LessonViewSet.perform_create            *)
(* (core/views.py:70-78, 97-103).  routePk is kwargs["course_pk"] or        *)
(* kwargs["module_pk"], NoPk on the top-level route; bodyParent is the      *)
(* parent id the request body names, which the serializers do not declare   *)
(* as a field (core/serializers.py:23, 37) and so never reaches save().     *)

\* a handler that lets the body's parent override the route's
BodyParentFirst(routePk, bodyParent) ==
    IF bodyParent # NoPk THEN bodyParent ELSE routePk

\* the parent bound to the new child: the route's when nested, none otherwise
BoundParent(routePk, bodyParent) == routePk

PerformCreateModule(routePk, bodyParent, name, slugIn) ==
    /\ IF routePk # NoPk /\ ~\E c \in courses : c.id = routePk
       THEN /\ UNCHANGED modules
            /\ response' = Resp("perform_create", "NotFound", "module",
                                routePk, None, bodyParent)
       ELSE LET r == InsertChild(modules, courses, name, slugIn,
                                 BoundParent(routePk, bodyParent))
            IN  /\ modules' = r.table
                /\ response' = Resp("perform_create", Status(r.ok), "module",
                                    routePk, None, bodyParent)
    /\ UNCHANGED <<courses, lessons, tags, topics, enrollments, progress, clock, procs>>

PerformCreateLesson(routePk, bodyParent, name, slugIn) ==
    /\ IF routePk # NoPk /\ ~\E m \in modules : m.id = routePk
       THEN /\ UNCHANGED lessons
            /\ response' = Resp("perform_create", "NotFound", "lesson",
                                routePk, None, bodyParent)
       ELSE LET r == InsertChild(lessons, modules, name, slugIn,
                                 BoundParent(routePk, bodyParent))
            IN  /\ lessons' = r.table
                /\ response' = Resp("perform_create", Status(r.ok), "lesson",
                                    routePk, None, bodyParent)
    /\ UNCHANGED <<courses, modules, tags, topics, enrollments, progress, clock, procs>>

-----------------------------------------------------------------------------
(* Enrollment and LessonProgress rows (core/models.py:48-69) *)

\* Enrollment.objects.create(course=c, user=u)
CreateEnrollment(u, c) ==
    /\ LET row == [id |-> NewId(enrollments), course |-> c, user |-> u]
       IN  enrollments' =
               IF (\E x \in courses : x.id = c) /\ EnrollmentUnique(enrollments, row)
               THEN enrollments \cup {row}
               ELSE enrollments
    /\ response' = NoResp
    /\ UNCHANGED <<courses, modules, lessons, tags, topics, progress, clock, procs>>

\* a receiver that stamps completions but never clears the timestamp
StampOnly(instance, now) ==
    IF instance.completed /\ instance.completed_at = NoTime
    THEN [instance EXCEPT !.completed_at = now]
    ELSE instance

\* the pre_save receiver of LessonProgress (core/signals.py:6-21)
set_completed_at_for_progress(instance, now) ==
    IF instance.completed
    THEN IF instance.completed_at = NoTime
         THEN [instance EXCEPT !.completed_at = now]
         ELSE instance
    ELSE IF instance.completed_at # NoTime
         THEN [instance EXCEPT !.completed_at = NoTime]
         ELSE instance

\* INSERT of a LessonProgress row: the constraints of core/models.py:63-69
ProgressInsertOk(table, row) ==
    /\ UserNotNull(row)
    /\ \E l \in lessons : l.id = row.lesson
    /\ ProgressUnique(table, row)

\* LessonProgress(user=u, lesson=l, completed=c, completed_at=at).save()
SaveNewProgress(u, l, c, at) ==
    /\ LET instance == [id |-> NewId(progress), user |-> u, lesson |-> l,
                        completed |-> c, completed_at |-> at]
           row == set_completed_at_for_progress(instance, clock)
       IN  progress' = IF ProgressInsertOk(progress, row)
                       THEN progress \cup {row}
                       ELSE progress
    /\ response' = NoResp
    /\ UNCHANGED <<courses, modules, lessons, tags, topics, enrollments, clock, procs>>

\* the completed_at a save carries: the caller's when it sets one, else the stored one
CarriedAt(old, setAt, at) == IF setAt THEN at ELSE old.completed_at

\* a stored LessonProgress loaded, completed (and perhaps completed_at) set by
\* the caller, and saved; the answer records the completed_at the instance
\* carried into the save
SaveProgress(pk, c, setAt, at) ==
    /\ \E old \in progress : old.id = pk
    /\ LET old == CHOOSE r \in progress : r.id = pk
           instance == [old EXCEPT !.completed = c,
                                   !.completed_at = CarriedAt(old, setAt, at)]
           row == set_completed_at_for_progress(instance, clock)
       IN  /\ progress' = (progress \ {old}) \cup {row}
           /\ response' = Resp("save", "ok", "progress", pk, None, instance.completed_at)
    /\ UNCHANGED <<courses, modules, lessons, tags, topics, enrollments, clock, procs>>

\* timezone.now() advances between requests
Tick ==
    /\ clock < MaxTime
    /\ clock' = clock + 1
    /\ response' = NoResp
    /\ UNCHANGED <<courses, modules, lessons, tags, topics, enrollments, progress, procs>>

-----------------------------------------------------------------------------
(* LessonViewSet.mark_complete (core/views.py:105-119) *)

\* QuerySet.update_or_create(user=u, lesson=l, defaults={"completed": True}):
\* a row matching the lookup is updated and saved, otherwise one is created;
\* user=None looks up "user IS NULL".  ok is FALSE when the store refuses.
update_or_create(table, u, l, now) ==
    LET found == {r \in table : r.user = u /\ r.lesson = l}
    IN  IF found # {}
        THEN LET old == CHOOSE r \in found : TRUE
                 row == set_completed_at_for_progress([old EXCEPT !.completed = TRUE], now)
             IN  [ok |-> TRUE, table |-> (table \ {old}) \cup {row}]
        ELSE LET instance == [id |-> NewId(table), user |-> u, lesson |-> l,
                              completed |-> TRUE, completed_at |-> NoTime]
                 row == set_completed_at_for_progress(instance, now)
             IN  IF ProgressInsertOk(table, row)
                 THEN [ok |-> TRUE, table |-> table \cup {row}]
                 ELSE [ok |-> FALSE, table |-> table]

\* the user the handler passes to update_or_create: line 115 passes None
ProgressUser(caller) == None

\* self.get_object(): the lesson of the route, within get_queryset()'s filter
LessonOfRoute(modulePk, lessonPk) ==
    {l \in lessons : l.id = lessonPk /\ (modulePk = NoPk \/ l.parent = modulePk)}

\* how many mark-complete requests in a row, this one included, the caller has
\* made for the lesson (2 stands for two or more)
Repeat(caller, lessonPk) ==
    IF /\ response.op = "mark_complete"
       /\ response.status # "NotFound"
       /\ response.parent = lessonPk
       /\ response.user = caller
    THEN 2
    ELSE 1

\* caller is request.user, None when the request carries no identity
MarkComplete(caller, modulePk, lessonPk) ==
    /\ IF LessonOfRoute(modulePk, lessonPk) = {}
       THEN /\ UNCHANGED progress
            /\ response' = Resp("mark_complete", "NotFound", "lesson", lessonPk, caller, 0)
       ELSE LET r == update_or_create(progress, ProgressUser(caller), lessonPk, clock)
            IN  /\ progress' = r.table
                /\ response' = Resp("mark_complete",
                                    IF r.ok THEN "completed" ELSE "IntegrityError",
                                    "lesson", lessonPk, caller, Repeat(caller, lessonPk))
    /\ UNCHANGED <<courses, modules, lessons, tags, topics, enrollments, clock, procs>>

-----------------------------------------------------------------------------
(* Course.total_lessons and Course.completion_for (core/models.py:21-31)   *)
(* Percentages are kept in hundredths: 2500 is 25.0, 6667 is 66.67.        *)

\* Lesson.objects.filter(module__course=self).count()
total_lessons(course) ==
    Cardinality({l \in lessons :
                    \E m \in modules : m.id = l.parent /\ m.parent = course})

\* round(n / d * 100, 2) in hundredths, ties to the even neighbour
RoundPercent(n, d) ==
    LET scaled == n * 10000
        q == scaled \div d
        r == scaled % d
    IN  IF 2 * r > d THEN q + 1
        ELSE IF 2 * r = d THEN q + (q % 2)
        ELSE q

\* a completion that counts the completed rows of every user
completion_of_anyone(course, user) ==
    LET total == total_lessons(course)
    IN  IF total = 0
        THEN 0
        ELSE LET completed ==
                     Cardinality({p \in progress :
                         /\ \E l \in lessons :
                               /\ l.id = p.lesson
                               /\ \E m \in modules : m.id = l.parent /\ m.parent = course
                         /\ p.completed})
             IN  RoundPercent(completed, total)

completion_for(course, user) ==
    LET total == total_lessons(course)
    IN  IF total = 0
        THEN 0
        ELSE LET completed ==
                     Cardinality({p \in progress :
                         /\ p.user = user
                         /\ \E l \in lessons :
                               /\ l.id = p.lesson
                               /\ \E m \in modules : m.id = l.parent /\ m.parent = course
                         /\ p.completed})
             IN  RoundPercent(completed, total)

NoRate == -1

\* CourseSerializer.get_completion_rate (core/serializers.py:68-72) on
\* GET /courses/{pk}: None unless the request carries an authenticated user
RetrieveCourse(caller, pk) ==
    /\ \E c \in courses : c.id = pk
    /\ response' = Resp("retrieve", "ok", "course", pk, caller,
                        IF caller # None THEN completion_for(pk, caller) ELSE NoRate)
    /\ UNCHANGED <<courses, modules, lessons, tags, topics, enrollments, progress,
                   clock, procs>>

-----------------------------------------------------------------------------
(* Initial state: an empty store *)

\* a request worker between requests
IdleProc == [pc |-> "idle", name |-> Empty, slug |-> Empty, i |-> 0,
             course |-> NoPk, user |-> None, result |-> "none"]

Init ==
    /\ courses = {}
    /\ modules = {}
    /\ lessons = {}
    /\ tags = {}
    /\ topics = {}
    /\ enrollments = {}
    /\ progress = {}
    /\ clock = 1
    /\ response = NoResp
    /\ procs = [p \in Procs |-> IdleProc]

-----------------------------------------------------------------------------
(* SpecSlug: slugged entities created, saved again and deleted *)

\* slugs a caller may set: none, or a valid slug of its own choosing
SlugInputs == {Empty, <<"a">>}

TotalRows ==
    Cardinality(courses) + Cardinality(modules) + Cardinality(lessons)
        + Cardinality(tags) + Cardinality(topics)

NextSlug ==
    \/ \E n \in Names, s \in SlugInputs : TotalRows < MaxRows /\ CreateCourse(n, s)
    \/ \E n \in Names, s \in SlugInputs : TotalRows < MaxRows /\ CreateTag(n, s)
    \/ \E n \in Names, s \in SlugInputs : TotalRows < MaxRows /\ CreateTopic(n, s)
    \/ \E c \in 1..MaxRows, n \in Names, s \in SlugInputs :
          TotalRows < MaxRows /\ PerformCreateModule(c, NoPk, n, s)
    \/ \E m \in 1..MaxRows, n \in Names, s \in SlugInputs :
          TotalRows < MaxRows /\ PerformCreateLesson(m, NoPk, n, s)
    \/ \E pk \in 1..MaxRows, n \in Names, b \in BOOLEAN : UpdateCourse(pk, n, b, Empty)
    \/ \E pk \in 1..MaxRows, n \in Names, b \in BOOLEAN : UpdateModule(pk, n, b, Empty)
    \/ \E pk \in 1..MaxRows : DeleteCourse(pk)
    \/ \E pk \in 1..MaxRows : DeleteTopic(pk)

SpecSlug == Init /\ [][NextSlug]_vars

-----------------------------------------------------------------------------
(* SpecAuto: entities only ever created, each without a slug of its own *)

NextAuto ==
    \/ \E n \in Names : TotalRows < MaxRows /\ CreateCourse(n, Empty)
    \/ \E n \in Names : TotalRows < MaxRows /\ CreateTag(n, Empty)
    \/ \E n \in Names : TotalRows < MaxRows /\ CreateTopic(n, Empty)
    \/ \E c \in 1..MaxRows, n \in Names :
          TotalRows < MaxRows /\ PerformCreateModule(c, NoPk, n, Empty)
    \/ \E m \in 1..MaxRows, n \in Names :
          TotalRows < MaxRows /\ PerformCreateLesson(m, NoPk, n, Empty)

SpecAuto == Init /\ [][NextAuto]_vars

-----------------------------------------------------------------------------
(* Slug claims *)

SlugTables == <<courses, modules, lessons, tags, topics>>

\* rows of one table that share a uniqueness scope with row r: the whole table
\* for Course, Tag and Topic (parent = NoPk), the siblings for Module and Lesson
InScope(table, r) == {x \in table : x.parent = r.parent}

\* the k-th candidate of the sequence x, x-2, x-3, ...
CandidateAt(base, k) == IF k = 1 THEN base ELSE Suffixed(base, k)

\* C4: every slug assigned on creation is unique within its scope and is
\* non-empty whenever the entity's name is non-empty.
C4_UniqueNonEmpty ==
    \A i \in 1..5 :
        \A r \in SlugTables[i] :
            /\ \A x \in InScope(SlugTables[i], r) : x.id # r.id => x.slug # r.slug
            /\ r.name # Empty => r.slug # Empty

FirstUnused(table, base, slug) ==
    \E k \in 1..(Cardinality(table) + 1) :
        /\ slug = CandidateAt(base, k)
        /\ \A x \in table : x.slug # slug
        /\ \A j \in 1..(k - 1) : \E x \in table : x.slug = CandidateAt(base, j)

\* a step that added a row to the table gave it the first unused candidate
AddedFirstUnused(table, tableNext, name) ==
    \/ tableNext = table
    \/ \E r \in tableNext \ table :
          /\ tableNext = table \cup {r}
          /\ r.name = name
          /\ FirstUnused(table, slugify(name), r.slug)

\* a save of row pk that carried its stored, non-empty slug left the slug alone
KeptSlug(table, tableNext, pk) ==
    \A old \in table :
        (old.id = pk /\ old.slug # Empty) =>
            \E r \in tableNext : r.id = pk /\ r.slug = old.slug

C9_RenameWitness ==
    \E m \in modules : m.name = <<"!">> /\ m.slug = <<"a", "-", "2">>

-----------------------------------------------------------------------------
(* Spec: the hierarchy store. Courses, modules and lessons are created     *)
(* through the nested routes, users enrolled, progress recorded, and       *)
(* courses, modules and lessons deleted.                                   *)

PlainNames == {<<"A">>}

\* the user whose enrollments and progress hang below the courses
Learners == {"u1"}

Next ==
    \/ \E n \in PlainNames : Cardinality(courses) < MaxCourses /\ CreateCourse(n, Empty)
    \/ \E route \in 1..MaxCourses, n \in PlainNames :
          Cardinality(modules) < MaxModules /\ PerformCreateModule(route, NoPk, n, Empty)
    \/ \E route \in 1..MaxModules, n \in PlainNames :
          Cardinality(lessons) < MaxLessons /\ PerformCreateLesson(route, NoPk, n, Empty)
    \/ \E u \in Learners, c \in 1..MaxCourses :
          Cardinality(enrollments) < MaxEnroll /\ CreateEnrollment(u, c)
    \/ \E u \in Learners, l \in 1..MaxLessons :
          Cardinality(progress) < MaxProgress /\ SaveNewProgress(u, l, TRUE, NoTime)
    \/ \E pk \in 1..MaxCourses : DeleteCourse(pk)
    \/ \E pk \in 1..MaxModules : DeleteModule(pk)
    \/ \E pk \in 1..MaxLessons : DeleteLesson(pk)

Spec == Init /\ [][Next]_vars

\* SpecNested: modules and lessons posted to the nested and the top-level
\* routes, with and without a parent id in the body
NextNested ==
    \/ \E n \in PlainNames : Cardinality(courses) < MaxCourses /\ CreateCourse(n, Empty)
    \/ \E route \in 0..(MaxCourses + 1), body \in 0..MaxCourses, n \in PlainNames :
          Cardinality(modules) < MaxModules /\ PerformCreateModule(route, body, n, Empty)
    \/ \E route \in 0..(MaxModules + 1), body \in 0..MaxModules, n \in PlainNames :
          Cardinality(lessons) < MaxNested /\ PerformCreateLesson(route, body, n, Empty)

SpecNested == Init /\ [][NextNested]_vars

-----------------------------------------------------------------------------
(* Hierarchy claims *)

\* no row references a parent that does not exist
NoOrphans ==
    /\ \A m \in modules : m.parent \in Ids(courses)
    /\ \A l \in lessons : l.parent \in Ids(modules)
    /\ \A e \in enrollments : e.course \in Ids(courses)
    /\ \A p \in progress : p.lesson \in Ids(lessons)

\* the course a lesson belongs to, through its module
CourseOfLesson(l) ==
    LET m == CHOOSE m \in modules : m.id = l.parent IN m.parent

\* deleting course pk took exactly the course and what hangs below it
DeletedExactly(pk) ==
    /\ courses' = {c \in courses : c.id # pk}
    /\ modules' = {m \in modules : m.parent # pk}
    /\ lessons' = {l \in lessons : CourseOfLesson(l) # pk}
    /\ enrollments' = {e \in enrollments : e.course # pk}
    /\ progress' = {p \in progress :
                       \E l \in lessons : l.id = p.lesson /\ CourseOfLesson(l) # pk}

\* C5: deleting a Course removes, in the same operation, its Modules, their
\* Lessons, its Enrollments and the LessonProgress of those lessons, so that no
\* row ever references a missing parent; rows of other courses are unchanged.
C5_CascadeDelete ==
    /\ []NoOrphans
    /\ [][\A pk \in 1..(MaxCourses + 1) : DeleteCourse(pk) => DeletedExactly(pk)]_vars

\* a course was deleted together with four or more dependent rows while
\* another course kept its module
C5_Witness ==
    /\ response.op = "delete"
    /\ response.kind = "course"
    /\ response.value >= 5
    /\ modules # {}

\* C8: on nested creation the parent id of the route is authoritative; a
\* route naming a missing parent answers NotFound and creates nothing.
C8_RouteParentWins ==
    [][ /\ \A route \in 1..(MaxCourses + 1), body \in 0..(MaxCourses + 1), n \in PlainNames :
            PerformCreateModule(route, body, n, Empty) =>
                IF route \in Ids(courses)
                THEN \A m \in modules' \ modules : m.parent = route
                ELSE modules' = modules /\ response'.status = "NotFound"
        /\ \A route \in 1..(MaxModules + 1), body \in 0..(MaxModules + 1), n \in PlainNames :
            PerformCreateLesson(route, body, n, Empty) =>
                IF route \in Ids(modules)
                THEN \A l \in lessons' \ lessons : l.parent = route
                ELSE lessons' = lessons /\ response'.status = "NotFound"
      ]_vars

\* a module was created under the route's course although the body named another
C8_Witness ==
    /\ response.op = "perform_create"
    /\ response.kind = "module"
    /\ response.status = "ok"
    /\ response.parent # NoPk
    /\ response.value # NoPk
    /\ response.value # response.parent
    /\ \E m \in modules : m.parent = response.parent
    /\ \E c \in courses : c.id = response.value

-----------------------------------------------------------------------------
(* SpecProgress: the LessonProgress rows of a course's lessons are saved,  *)
(* re-saved and marked complete as the clock advances.                     *)

Callers == Users \cup {None}

\* the store SpecProgress starts from: one course with one module holding
\* MaxLessons lessons, each created by the saves above
CourseBuilt == InsertFlat({}, <<"A">>, Empty).table
ModuleBuilt == InsertChild({}, CourseBuilt, <<"A">>, Empty, 1).table

RECURSIVE LessonsBuilt(_)
LessonsBuilt(n) ==
    IF n = 0 THEN {}
    ELSE InsertChild(LessonsBuilt(n - 1), ModuleBuilt, <<"A">>, Empty, 1).table

InitProgress ==
    /\ courses = CourseBuilt
    /\ modules = ModuleBuilt
    /\ lessons = LessonsBuilt(MaxLessons)
    /\ tags = {}
    /\ topics = {}
    /\ enrollments = {}
    /\ progress = {}
    /\ clock = 1
    /\ response = NoResp
    /\ procs = [p \in Procs |-> IdleProc]

NextProgress ==
    \/ \E u \in Users, l \in 1..MaxLessons, c \in BOOLEAN, at \in {NoTime, clock} :
          Cardinality(progress) < MaxProgressRows /\ SaveNewProgress(u, l, c, at)
    \/ \E pk \in 1..MaxProgressRows, c \in BOOLEAN, setAt \in BOOLEAN, at \in {NoTime, clock} :
          SaveProgress(pk, c, setAt, at)
    \/ \E caller \in Callers, m \in 0..2, l \in 1..(MaxLessons + 1) :
          MarkComplete(caller, m, l)
    \/ Tick

SpecProgress == InitProgress /\ [][NextProgress]_vars

-----------------------------------------------------------------------------
(* SpecCompletion: lessons spread over the modules of the courses, progress *)
(* rows of several users, and courses read back with their completion rate  *)

NextCompletion ==
    \/ \E n \in PlainNames : Cardinality(courses) < MaxCourses /\ CreateCourse(n, Empty)
    \/ \E route \in 1..MaxCourses, n \in PlainNames :
          Cardinality(modules) < MaxModules /\ PerformCreateModule(route, NoPk, n, Empty)
    \/ \E route \in 1..MaxModules, n \in PlainNames :
          Cardinality(lessons) < MaxTracked /\ PerformCreateLesson(route, NoPk, n, Empty)
    \/ \E u \in Users, l \in 1..MaxTracked, c \in BOOLEAN :
          Cardinality(progress) < MaxMarks /\ SaveNewProgress(u, l, c, NoTime)
    \/ \E caller \in Callers, pk \in 1..MaxCourses : RetrieveCourse(caller, pk)

SpecCompletion == Init /\ [][NextCompletion]_vars

-----------------------------------------------------------------------------
(* Progress claims *)

\* C1: after any LessonProgress write, completed_at is non-null if and only
\* if completed is true; a write setting completed=false clears completed_at.
C1_CompletedAtIffCompleted ==
    \A p \in progress : p.completed <=> (p.completed_at # NoTime)

\* a save that carried a timestamp into a row set to not completed left the
\* row without one
C1_Witness ==
    /\ response.op = "save"
    /\ response.value # NoTime
    /\ \E p \in progress :
          p.id = response.parent /\ ~p.completed /\ p.completed_at = NoTime

ProgressRowsOf(user, lesson) ==
    {p \in progress : p.user = user /\ p.lesson = lesson}

\* C2: after two or more mark-complete calls of one user for one lesson the
\* store holds exactly one LessonProgress row for the pair, completed, with
\* the completed_at of the first completion.
C2_OneCompletedRow ==
    (/\ response.op = "mark_complete"
     /\ response.status # "NotFound"
     /\ response.user # None
     /\ response.value = 2)
        => /\ Cardinality(ProgressRowsOf(response.user, response.parent)) = 1
           /\ \A p \in ProgressRowsOf(response.user, response.parent) :
                 p.completed /\ p.completed_at # NoTime /\ p.completed_at <= clock

\* C3: mark-complete without an identity answers Unauthorized and writes
\* nothing; with one, the row it upserts is keyed by the caller and the lesson,
\* never by a null user.
C3_IdentityRequired ==
    (response.op = "mark_complete" /\ response.status # "NotFound")
        => /\ \A p \in progress : p.user # None
           /\ IF response.user = None
              THEN response.status = "Unauthorized"
              ELSE /\ response.status = "completed"
                   /\ ProgressRowsOf(response.user, response.parent) # {}

-----------------------------------------------------------------------------
(* Completion claim *)

LessonsIn(c) == {l \in lessons : CourseOfLesson(l) = c}

CompletedRows(u, c) ==
    {p \in progress : p.user = u /\ p.completed /\ p.lesson \in Ids(LessonsIn(c))}

Abs(x) == IF x < 0 THEN -x ELSE x

\* v hundredths is n / d * 100 rounded to two decimal places
IsRounded(v, n, d) == 2 * Abs(v * d - n * 10000) <= d

\* the percentage the claim describes for user u and course c
IsCompletionOf(v, u, c) ==
    LET total == Cardinality(LessonsIn(c))
        done == Cardinality(CompletedRows(u, c))
    IN  /\ total = 0 => v = 0
        /\ total > 0 => IsRounded(v, done, total)
        /\ (total = 4 /\ done = 1) => v = 2500
        /\ (total = 3 /\ done = 2) => v = 6667

\* C6: completion_for(user, course) is 0.0 for a course without lessons and
\* otherwise the user's completed rows in the course over the course's lessons,
\* times 100, rounded to 2 decimals; other users and courses do not count.
C6_CompletionPercentage ==
    /\ \A u \in Users, c \in courses : IsCompletionOf(completion_for(c.id, u), u, c.id)
    /\ (response.op = "retrieve" /\ response.user # None)
          => IsCompletionOf(response.value, response.user, response.parent)

\* a course of three lessons read back at 66.67 while another course has a
\* lesson of its own
C6_Witness ==
    /\ response.op = "retrieve"
    /\ response.value = 6667
    /\ Cardinality(LessonsIn(response.parent)) = 3
    /\ \E l \in lessons : CourseOfLesson(l) # response.parent

\* a course of four lessons read back at 25.0 with a second row that does not
\* count: another user's, or one not completed
C6_QuarterWitness ==
    /\ response.op = "retrieve"
    /\ response.value = 2500
    /\ Cardinality(LessonsIn(response.parent)) = 4
    /\ Cardinality(progress) = 2

-----------------------------------------------------------------------------
(* SpecEnroll: concurrent enroll(user, course) requests.  Each worker looks *)
(* for an existing Enrollment and then inserts one; the store checks        *)
(* unique_together (course, user) on the INSERT.                            *)

Busy(p, pc) == procs[p].pc = pc

EnrollBegin(p, u, c) ==
    /\ Busy(p, "idle")
    /\ procs' = [procs EXCEPT ![p] = [IdleProc EXCEPT !.pc = "check", !.user = u, !.course = c]]
    /\ UNCHANGED <<courses, modules, lessons, tags, topics, enrollments, progress,
                   clock, response>>

EnrollmentsFor(u, c) == {e \in enrollments : e.user = u /\ e.course = c}

EnrollCheck(p) ==
    /\ Busy(p, "check")
    /\ procs' = [procs EXCEPT ![p] =
                    IF ~\E x \in courses : x.id = procs[p].course
                    THEN [@ EXCEPT !.pc = "done", !.result = "NotFound"]
                    ELSE IF EnrollmentsFor(procs[p].user, procs[p].course) # {}
                    THEN [@ EXCEPT !.pc = "done", !.result = "Conflict"]
                    ELSE [@ EXCEPT !.pc = "insert"]]
    /\ UNCHANGED <<courses, modules, lessons, tags, topics, enrollments, progress,
                   clock, response>>

EnrollInsert(p) ==
    /\ Busy(p, "insert")
    /\ LET row == [id |-> NewId(enrollments), course |-> procs[p].course,
                   user |-> procs[p].user]
       IN  IF EnrollmentUnique(enrollments, row)
           THEN /\ enrollments' = enrollments \cup {row}
                /\ procs' = [procs EXCEPT ![p] = [@ EXCEPT !.pc = "done",
                                                           !.result = "Created"]]
           ELSE /\ enrollments' = enrollments
                /\ procs' = [procs EXCEPT ![p] = [@ EXCEPT !.pc = "done",
                                                           !.result = "Conflict"]]
    /\ UNCHANGED <<courses, modules, lessons, tags, topics, progress, clock, response>>

\* the worker answers and takes the next request
Return(p) ==
    /\ Busy(p, "done")
    /\ procs' = [procs EXCEPT ![p] = IdleProc]
    /\ UNCHANGED <<courses, modules, lessons, tags, topics, enrollments, progress,
                   clock, response>>

NextEnroll ==
    \/ \E n \in PlainNames : Cardinality(courses) < MaxCourses /\ CreateCourse(n, Empty)
    \/ \E p \in Procs, u \in Users, c \in 1..MaxCourses : EnrollBegin(p, u, c)
    \/ \E p \in Procs : EnrollCheck(p)
    \/ \E p \in Procs : EnrollInsert(p)
    \/ \E p \in Procs : Return(p)

SpecEnroll == Init /\ [][NextEnroll]_vars

\* C7: concurrent enroll calls for one (user, course) pair leave exactly one
\* Enrollment row for it; every caller after the first observes Conflict; no
\* state holds two rows with the same (course, user).
C7_OneEnrollment ==
    /\ \A e1, e2 \in enrollments :
          (e1.course = e2.course /\ e1.user = e2.user) => e1 = e2
    /\ \A p \in Procs :
          (Busy(p, "done") /\ procs[p].result \in {"Created", "Conflict"})
              => Cardinality(EnrollmentsFor(procs[p].user, procs[p].course)) = 1
    /\ \A p, q \in Procs :
          (/\ p # q
           /\ Busy(p, "done") /\ Busy(q, "done")
           /\ procs[p].user = procs[q].user /\ procs[p].course = procs[q].course)
              => ~(procs[p].result = "Created" /\ procs[q].result = "Created")

\* two workers enrolled the same pair at once: one created the row, the other
\* passed the look-up and was refused by the store
C7_Witness ==
    /\ Busy("p1", "done") /\ procs["p1"].result = "Created"
    /\ Busy("p2", "insert")
    /\ procs["p1"].user = procs["p2"].user
    /\ procs["p1"].course = procs["p2"].course
    /\ Cardinality(EnrollmentsFor(procs["p1"].user, procs["p1"].course)) = 1

-----------------------------------------------------------------------------
(* SpecRace: concurrent creations of same-named courses.  Each worker runs *)
(* SlugMixin.save one query at a time: the loop's exists() queries, then   *)
(* the INSERT of super().save().                                           *)

InFlight == Cardinality({p \in Procs : ~Busy(p, "idle")})

\* lines 33-38: no slug given, the name not empty; candidate = base, i = 2
SlugBegin(p, n) ==
    /\ Busy(p, "idle")
    /\ n # Empty
    /\ Cardinality(courses) + InFlight < MaxRace
    /\ procs' = [procs EXCEPT ![p] =
                    [IdleProc EXCEPT !.pc = "loop", !.name = n,
                                     !.slug = Truncate(slugify(n), SlugBaseLen),
                                     !.i = 2]]
    /\ UNCHANGED <<courses, modules, lessons, tags, topics, enrollments, progress,
                   clock, response>>

\* lines 40-43: one evaluation of the while condition
SlugLoop(p) ==
    /\ Busy(p, "loop")
    /\ procs' = [procs EXCEPT ![p] =
                    IF SlugTaken(courses, procs[p].slug, NoPk)
                    THEN [@ EXCEPT !.slug = Suffixed(Truncate(slugify(procs[p].name),
                                                              SlugBaseLen), procs[p].i),
                                   !.i = procs[p].i + 1]
                    ELSE [@ EXCEPT !.pc = "write"]]
    /\ UNCHANGED <<courses, modules, lessons, tags, topics, enrollments, progress,
                   clock, response>>

\* line 44: super().save() inserts the row; the store checks the unique slug
SlugWrite(p) ==
    /\ Busy(p, "write")
    /\ LET row == Row(NewId(courses), procs[p].name, procs[p].slug, NoPk)
       IN  IF SlugUnique(courses, row)
           THEN /\ courses' = courses \cup {row}
                /\ procs' = [procs EXCEPT ![p] = [@ EXCEPT !.pc = "done",
                                                           !.result = "Created"]]
           ELSE /\ courses' = courses
                /\ procs' = [procs EXCEPT ![p] = [@ EXCEPT !.pc = "done",
                                                           !.result = "IntegrityError"]]
    /\ UNCHANGED <<modules, lessons, tags, topics, enrollments, progress, clock, response>>

\* names whose slug is not empty
SluggableNames == {n \in Names : slugify(n) # Empty}

NextRace ==
    \/ \E p \in Procs, n \in SluggableNames : SlugBegin(p, n)
    \/ \E p \in Procs : SlugLoop(p)
    \/ \E p \in Procs : SlugWrite(p)
    \/ \E p \in Procs : Return(p)

SpecRace == Init /\ [][NextRace]_vars

\* C10: slug collision resolution is atomic per scope: two concurrent
\* creations of same-named entities both succeed with distinct slugs, and
\* neither surfaces a duplicate-slug Conflict.
C10_NoSlugConflict ==
    \A p \in Procs : procs[p].result # "IntegrityError"

=============================================================================
